---------------------------- MODULE Spec2Model ----------------------------
(***************************************************************************)
(* Order discovery, task submission and task-status tracking of the iExec  *)
(* TEE scoring front end.                                                  *)
(*                                                                         *)
(*   packages/frontend/src/services/iexecService.ts  (service "packages") *)
(*   frontend/src/services/iexecService.ts           (service "frontend") *)
(*   frontend/src/components/ScoreDisplay.tsx, frontend/src/App.tsx        *)
(*   packages/tee-app/scoringLogic/src/app.js                              *)
(*   packages/data-protector/src/grantAccess.ts, protectScoreData.ts       *)
(*                                                                         *)
(* The specifications of the module:                                       *)
(*   SpecOffers  the offer-resolution functions applied to order books    *)
(*   SpecSubmit  one run of triggerTEETask                                 *)
(*   SpecPoll    one run of pollTaskUntilComplete driven by ScoreDisplay   *)
(*               (SpecPollFair: the same, timers and promises settle)      *)
(*   SpecUI      App + ScoreDisplay with several tasks and pollers         *)
(*               (SpecUIFair: the same, timers and promises settle)        *)
(*   SpecResult  one run of the scoring app and the reading of its result  *)
(*   SpecRun     one submission, the run of its task, the reading of the   *)
(*               result                                                    *)
(*   SpecConc    triggerTEETask / getTaskStatus calls at the same time     *)
(*   SpecGrant   the batch grants of AccessManager and the grant-access    *)
(*               command line                                              *)
(*   SpecConn    initialize() calls on the service instance                *)
(***************************************************************************)
EXTENDS Integers, Naturals, Sequences, FiniteSets, TLC

(***************************************************************************)
(* Bounds of the model.                                                    *)
(***************************************************************************)
\* longest order book returned by an orderbook query
MaxBook == 2
\* highest price published in an order book
MaxPrice == 2

(***************************************************************************)
(* Order-book entries.  An entry is {order: {price, tag, category},       *)
(* remaining}; it is flattened to one record here.                         *)
(***************************************************************************)
\* tag bits: 1 = TEE, 2 = SCONE (iexecService.ts:83), 4 = an unrelated bit
Tags == {0, 1, 3, 7}
Prices == 1..MaxPrice
Remainings == {0, 1}
Categories == {0}

OrderEntry == [price : Prices, tag : Tags, remaining : Remainings, category : Categories]

\* the free and the priced dataset order (datasetprice 0 is what getDatasetOrder looks for)
DatasetEntry == [price : 0..1, tag : {0}, remaining : Remainings, category : {0}]

NoOrder == [price |-> 0, tag |-> 0, remaining |-> 0, category |-> 0]

SeqsUpTo(S, n) == UNION {[1..k -> S] : k \in 0..n}

\* what an orderbook query answers: it throws, or it returns {orders: [...]}
Responses(S) == {[ok |-> FALSE, orders |-> <<>>]} \cup {[ok |-> TRUE, orders |-> o] : o \in SeqsUpTo(S, MaxBook)}

\* the bitwise & of BigInt / number
RECURSIVE BitAnd(_, _)
BitAnd(a, b) ==
    IF a = 0 \/ b = 0 THEN 0
    ELSE (a % 2) * (b % 2) + 2 * BitAnd(a \div 2, b \div 2)

\* tag of the request order: TEE (0x1) + SCONE (0x2)
RequestTag == 3

\* (tagBigInt & BigInt('0x3')) !== BigInt('0')
hasTeeTag(e) == BitAnd(e.tag, RequestTag) # 0

\* availableOrders.sort((a, b) => price(a) - price(b))[0]: the sort is stable, so
\* the first entry of least price
CheapestFirst(orders) ==
    LET i == CHOOSE i \in 1..Len(orders) :
                 \A j \in 1..Len(orders) :
                     \/ orders[i].price < orders[j].price
                     \/ orders[i].price = orders[j].price /\ i <= j
    IN  orders[i]

Found(e, path) == [found |-> TRUE, order |-> e, path |-> path]
NotFound == [found |-> FALSE, order |-> NoOrder, path |-> "none"]

HasRemaining(e) == e.remaining > 0

\* getAppOrder: the cheapest order with remaining volume, else the first order,
\* else (no order, or the query threw) the 'No app orders found' error
getAppOrder(resp) ==
    IF resp.ok /\ Len(resp.orders) > 0
    THEN LET availableOrders == SelectSeq(resp.orders, HasRemaining)
         IN  IF Len(availableOrders) > 0
             THEN Found(CheapestFirst(availableOrders), "cheapest")
             ELSE Found(resp.orders[1], "first")
    ELSE NotFound

\* the filter of both lookup paths of getWorkerpoolOrder
TeeAvailable(e) == e.remaining > 0 /\ hasTeeTag(e)

\* getWorkerpoolOrder: the first passing order of the debug pool's book, else the
\* cheapest passing order of the whole book, else the 'No TEE-enabled
\* workerpools' error.  A throwing debug query is caught and the general
\* search runs; a throwing general query ends in the error.
getWorkerpoolOrder(debugResp, resp) ==
    LET availableDebugOrders == SelectSeq(debugResp.orders, TeeAvailable)
        teeOrders == SelectSeq(resp.orders, TeeAvailable)
    IN  IF debugResp.ok /\ Len(debugResp.orders) > 0 /\ Len(availableDebugOrders) > 0
        THEN Found(availableDebugOrders[1], "debug")
        ELSE IF resp.ok /\ Len(resp.orders) > 0 /\ Len(teeOrders) > 0
             THEN Found(CheapestFirst(teeOrders), "general")
             ELSE NotFound

IsFree(e) == e.price = 0

\* getDatasetOrder: the first free order, else the first order, else the
\* 'No available orders found for protected data' error
getDatasetOrder(resp) ==
    IF resp.ok /\ Len(resp.orders) > 0
    THEN LET freeOrders == SelectSeq(resp.orders, IsFree)
         IN  IF Len(freeOrders) > 0
             THEN Found(freeOrders[1], "free")
             ELSE Found(resp.orders[1], "first")
    ELSE NotFound

VARIABLES
    lkKind,      \* which resolution function is applied: "app", "pool", "dataset"
    lkDebug,     \* answer of fetchWorkerpoolOrderbook({workerpool: debug pool})
    lkBook,      \* answer of the orderbook query of the function
    lkDone,      \* the function has returned
    lkResult     \* what it returned

offerVars == <<lkKind, lkDebug, lkBook, lkDone, lkResult>>

VARIABLES
    sub,         \* one run of triggerTEETask
    rd,          \* one run of the scoring app and the reading of its result
    conc,        \* triggerTEETask / getTaskStatus calls running at the same
                 \* time on one service instance, and the deals of the ledger
    gr,          \* one call of a batch grant, or one run of the grant-access
                 \* command line
    cx           \* the fields of the service instance and its initialize() calls

VARIABLES
    svc,          \* the service module in use: "packages" or "frontend"
    remote,       \* task.statusName of every task on the ledger
    nTasks,       \* tasks triggered so far; their ids are 1..nTasks
    currentTask,  \* App: the task ScoreDisplay shows
    taskHistory,  \* App: the recent tasks, newest first
    isPolling,    \* ScoreDisplay: the isPolling state
    loops,        \* the pollTaskUntilComplete / refreshTask calls in flight
    fetches       \* fetchTaskResult calls made for every task

uiVars == <<svc, remote, nTasks, currentTask, taskHistory, isPolling, loops, fetches>>

vars == <<offerVars, sub, rd, conc, gr, cx, uiVars>>

EmptyResponse == [ok |-> TRUE, orders |-> <<>>]

(***************************************************************************)
(* triggerTEETask (packages/frontend/src/services/iexecService.ts:65-174). *)
(* Each await is one step; what the SDK and the order book answer is drawn *)
(* at the step.                                                            *)
(***************************************************************************)
\* longest order book answered during a submission
MaxSubmitBook == 1

\* category of the request order: 0 in the packages service, 3 in the frontend service
RequestCategories == {0, 3}

SubmitEntry == [price : {1}, tag : Tags, remaining : Remainings, category : RequestCategories]

SubmitResponses(S) ==
    {[ok |-> FALSE, orders |-> <<>>]} \cup {[ok |-> TRUE, orders |-> o] : o \in SeqsUpTo(S, MaxSubmitBook)}

\* a JavaScript number: NaN, or m / 10^s with no trailing zero decimal
NaN == [nan |-> TRUE, m |-> 0, s |-> 0]

RECURSIVE Num(_, _)
Num(m, s) == IF s > 0 /\ m % 10 = 0 THEN Num(m \div 10, s - 1)
             ELSE [nan |-> FALSE, m |-> m, s |-> s]

RECURSIVE Pow10(_)
Pow10(n) == IF n = 0 THEN 1 ELSE 10 * Pow10(n - 1)

\* params.inputValue: undefined, or a number (0, 42, 1.5)
InputValues ==
    {[defined |-> FALSE, value |-> Num(0, 0)]}
        \cup {[defined |-> TRUE, value |-> v] : v \in {Num(0, 0), Num(42, 0), Num(15, 1)}}

TriggerParams == [useProtectedData : BOOLEAN, protectedDataAddress : BOOLEAN, inputValue : InputValues]

DigitChar(d) ==
    CASE d = 0 -> "0" [] d = 1 -> "1" [] d = 2 -> "2" [] d = 3 -> "3" [] d = 4 -> "4"
      [] d = 5 -> "5" [] d = 6 -> "6" [] d = 7 -> "7" [] d = 8 -> "8" [] d = 9 -> "9"

\* the decimal digits of a natural number
RECURSIVE Digits(_)
Digits(n) == IF n < 10 THEN <<DigitChar(n)>> ELSE Append(Digits(n \div 10), DigitChar(n % 10))

\* the k decimal digits of a fraction f / 10^k
RECURSIVE FractionDigits(_, _)
FractionDigits(f, k) ==
    IF k = 0 THEN <<>> ELSE Append(FractionDigits(f \div 10, k - 1), DigitChar(f % 10))

\* Number.prototype.toString of a number that is not NaN: the digits of the
\* integer part, then a point and the fraction digits if it has a fraction
toString(n) ==
    Digits(n.m \div Pow10(n.s))
        \o (IF n.s > 0 THEN <<".">> \o FractionDigits(n.m % Pow10(n.s), n.s) ELSE <<>>)

\* params.inputValue?.toString() || '42'
ArgsOf_noDefault(inputValue) == IF inputValue.defined THEN toString(inputValue.value) ELSE <<>>
ArgsOf(inputValue) == IF inputValue.defined THEN toString(inputValue.value) ELSE <<"4", "2">>

NoArgs == <<>>

IdleSub == [
    pc |-> "idle",
    params |-> [useProtectedData |-> FALSE, protectedDataAddress |-> FALSE,
                inputValue |-> [defined |-> FALSE, value |-> Num(0, 0)]],
    dataset |-> FALSE,        \* orderParams.dataset is set
    args |-> NoArgs,          \* orderParams.params.args
    signed |-> FALSE,         \* signRequestorder has returned
    apporder |-> NotFound,
    workerpoolorder |-> NotFound,
    datasetorder |-> NotFound,  \* matchOrdersRequest.datasetorder
    matchCalls |-> 0,         \* calls of order.matchOrders
    showCalls |-> 0,          \* calls of deal.show
    dealId |-> 0,             \* 0: no deal
    matched |-> 0,            \* history: the deal the marketplace made of the request
    taskId |-> 0,
    status |-> "none",
    error |-> "none",
    warned |-> FALSE,         \* console.warn of the dataset fallback
    appAvail |-> FALSE,       \* history: the fetched app book held an order with
                              \* remaining volume
    confAvail |-> FALSE ]     \* history: a fetched pool book held an order with
                              \* remaining volume and both TEE and SCONE bits

\* the catch of line 170 wraps every error of the body
Fail(s, e) == [s EXCEPT !.pc = "failed", !.error = e]

\* lines 65-108 up to the first await
Trigger ==
    /\ sub.pc = "idle"
    /\ \E svcInitialized \in BOOLEAN, p \in TriggerParams :
          IF ~svcInitialized
          THEN sub' = [sub EXCEPT !.pc = "failed", !.params = p, !.error = "NotInitialized"]
          ELSE IF svc = "packages" /\ p.useProtectedData /\ p.protectedDataAddress
               THEN sub' = [sub EXCEPT !.pc = "dataset1", !.params = p]
               ELSE sub' = [sub EXCEPT !.pc = "sign", !.params = p,
                                       !.args = ArgsOf(p.inputValue)]
    /\ UNCHANGED <<offerVars, rd, conc, gr, cx, uiVars>>

\* lines 95-101: the catch of the dataset lookup warns on the console and
\* sets the args of test mode
DatasetFallback_abort(s) == [Fail(s, "DatasetUnavailable") EXCEPT !.warned = TRUE]
DatasetFallback(s) ==
    [s EXCEPT !.pc = "sign", !.warned = TRUE, !.args = ArgsOf(s.params.inputValue)]

\* lines 89-101: the dataset order is looked up; without one, test mode
DatasetLookup ==
    /\ sub.pc = "dataset1"
    /\ \E resp \in SubmitResponses(DatasetEntry) :
          LET datasetOrder == getDatasetOrder(resp)
          IN  IF datasetOrder.found
              THEN sub' = [sub EXCEPT !.pc = "sign", !.dataset = TRUE]
              ELSE sub' = DatasetFallback(sub)
    /\ UNCHANGED <<offerVars, rd, conc, gr, cx, uiVars>>

\* lines 111-112: createRequestorder and signRequestorder
SignRequest ==
    /\ sub.pc = "sign"
    /\ \E ok \in BOOLEAN :
          sub' = IF ok THEN [sub EXCEPT !.pc = "apporder", !.signed = TRUE]
                 ELSE Fail(sub, "SignFailed")
    /\ UNCHANGED <<offerVars, rd, conc, gr, cx, uiVars>>

\* line 116
FetchAppOrder ==
    /\ sub.pc = "apporder"
    /\ \E resp \in SubmitResponses(SubmitEntry) :
          LET o == getAppOrder(resp)
              s == [sub EXCEPT !.appAvail = resp.ok /\ \E i \in 1..Len(resp.orders) :
                                                         HasRemaining(resp.orders[i])]
          IN  sub' = IF o.found THEN [s EXCEPT !.pc = "poolorder", !.apporder = o]
                     ELSE Fail(s, "NoAppOrder")
    /\ UNCHANGED <<offerVars, rd, conc, gr, cx, uiVars>>

ConfidentialOffer(e) == e.remaining > 0 /\ BitAnd(e.tag, RequestTag) = RequestTag

HoldsConfidential(resp) == resp.ok /\ \E i \in 1..Len(resp.orders) : ConfidentialOffer(resp.orders[i])

\* getWorkerpoolOrder of the frontend service (lines 346-398): the cheapest
\* order of category 3 with remaining volume, whatever its tag
InCategory(e) == e.remaining > 0 /\ e.category = 3

getWorkerpoolOrderFrontend(resp) ==
    LET availableOrders == SelectSeq(resp.orders, InCategory)
    IN  IF resp.ok /\ Len(resp.orders) > 0 /\ Len(availableOrders) > 0
        THEN Found(CheapestFirst(availableOrders), "general")
        ELSE NotFound

\* line 117 (frontend service: line 100)
FetchWorkerpoolOrder ==
    /\ sub.pc = "poolorder"
    /\ \E debugResp \in SubmitResponses(SubmitEntry), resp \in SubmitResponses(SubmitEntry) :
          LET o == IF svc = "packages" THEN getWorkerpoolOrder(debugResp, resp)
                   ELSE getWorkerpoolOrderFrontend(resp)
              s == [sub EXCEPT !.confAvail = HoldsConfidential(debugResp) \/ HoldsConfidential(resp)]
          IN  sub' = IF o.found
                     THEN [s EXCEPT !.pc = IF sub.dataset THEN "dataset2" ELSE "match",
                                    !.workerpoolorder = o]
                     ELSE Fail(s, "NoTeeWorkerpool")
    /\ UNCHANGED <<offerVars, rd, conc, gr, cx, uiVars>>

\* lines 122-129: the dataset order is looked up again for the match request
FetchDatasetOrder ==
    /\ sub.pc = "dataset2"
    /\ \E resp \in SubmitResponses(DatasetEntry) :
          sub' = [sub EXCEPT !.pc = "match", !.datasetorder = getDatasetOrder(resp)]
    /\ UNCHANGED <<offerVars, rd, conc, gr, cx, uiVars>>

\* deal ids the marketplace hands out
DealIds == {1, 2}

\* line 131: the marketplace matches, or matchOrders throws
MatchOrders ==
    /\ sub.pc = "match"
    /\ \/ \E d \in DealIds :
             sub' = [sub EXCEPT !.pc = "taskid", !.matchCalls = @ + 1, !.dealId = d,
                                !.matched = d]
       \/ sub' = [Fail(sub, "MatchFailed") EXCEPT !.matchCalls = @ + 1]
    /\ UNCHANGED <<offerVars, rd, conc, gr, cx, uiVars>>

\* the task of a deal at index 0
TaskOf(dealId) == dealId

\* lines 164-169: the task handed back
Return_running(s, t) == [s EXCEPT !.pc = "done", !.taskId = t, !.status = "running"]
Return(s, t) == [s EXCEPT !.pc = "done", !.taskId = t, !.status = "pending"]

\* line 140: deal.computeTaskId(dealId, 0), or it throws: the packages
\* service then asks deal.show, the frontend service (line 105) fails
ComputeTaskId ==
    /\ sub.pc = "taskid"
    /\ \/ sub' = Return(sub, TaskOf(sub.dealId))
       \/ sub' = IF svc = "packages" THEN [sub EXCEPT !.pc = "dealshow"]
                 ELSE Fail(sub, "ComputeTaskIdFailed")
    /\ UNCHANGED <<offerVars, rd, conc, gr, cx, uiVars>>

\* lines 145-161: deal.show(dealId).tasks, first entry; none, or a throw, is
\* 'Failed to get task ID for deal'
DealShow ==
    /\ sub.pc = "dealshow"
    /\ \E tasks \in {<<>>, <<TaskOf(sub.dealId)>>}, ok \in BOOLEAN :
          sub' = IF ok /\ Len(tasks) > 0 THEN Return([sub EXCEPT !.showCalls = @ + 1], tasks[1])
                 ELSE Fail([sub EXCEPT !.showCalls = @ + 1], "NoTaskId")
    /\ UNCHANGED <<offerVars, rd, conc, gr, cx, uiVars>>

(***************************************************************************)
(* Task-status tracking: getTaskStatus, pollTaskUntilComplete, ScoreDisplay *)
(* (startPolling, refreshTask, its effect on the task prop) and App        *)
(* (handleTaskTriggered, handleTaskUpdate, the history list).              *)
(***************************************************************************)
\* tasks triggered in a session
MaxTasks == 2
\* pollTaskUntilComplete / refreshTask calls in flight at once
MaxLoops == 2
\* const maxPolls (180 and 120 in the services), scaled down
maxPolls == 3
\* fetchTaskResult calls counted per task; the count saturates here
MaxFetch == 2
\* handleTaskTriggered keeps prev.slice(0, 9) behind the new task
HistoryKeep == 9
\* the history list shows taskHistory.slice(0, 5)
HistoryShown == 5

Services == {"packages", "frontend"}

\* task.statusName; a task is UNSET until the workerpool initializes it
RemoteStates == {"UNSET", "ACTIVE", "REVEALING", "COMPLETED", "TIMEOUT", "FAILED", "UNRECOGNISED"}

\* the ledger moves a task forward only
RemoteSuccessors(st) ==
    CASE st = "UNSET" -> {"ACTIVE"}
      [] st = "ACTIVE" -> {"REVEALING", "TIMEOUT"}
      [] st = "REVEALING" -> {"COMPLETED", "TIMEOUT"}
      [] st = "TIMEOUT" -> {"FAILED"}
      [] OTHER -> {}

\* the switch of getTaskStatus
MapStatus_revealingPending(statusName) ==
    CASE statusName = "ACTIVE" -> "running"
      [] statusName = "COMPLETED" -> "completed"
      [] statusName \in {"FAILED", "TIMEOUT"} -> "failed"
      [] OTHER -> "pending"
MapStatus(statusName) ==
    CASE statusName \in {"ACTIVE", "REVEALING"} -> "running"
      [] statusName = "COMPLETED" -> "completed"
      [] statusName \in {"FAILED", "TIMEOUT"} -> "failed"
      [] OTHER -> "pending"

Terminal(status) == status \in {"completed", "failed"}

TaskRec(t, status, result) == [taskId |-> t, status |-> status, result |-> result]

NoTask == TaskRec(0, "none", "none")

\* what a getTaskStatus call settles with
Threw == [threw |-> TRUE, status |-> "none", result |-> "none", fetched |-> FALSE, statusName |-> "none"]

Answer(statusName, result, fetched) ==
    [threw |-> FALSE, status |-> MapStatus(statusName), result |-> result,
     fetched |-> fetched, statusName |-> statusName]

\* getTaskStatus on a task whose statusName is given: task.show or deal.show
\* throws, or the status is mapped; for COMPLETED with a results.location the
\* payload is fetched and parsed, and a failed fetch leaves result undefined
getTaskStatus(statusName) ==
    {Threw}
    \cup (IF statusName = "COMPLETED"
          THEN {Answer(statusName, "none", FALSE),
                Answer(statusName, "none", TRUE),
                Answer(statusName, "scored", TRUE)}
          ELSE {Answer(statusName, "none", FALSE)})

NoResp == [threw |-> FALSE, status |-> "none", result |-> "none", fetched |-> FALSE, statusName |-> "none"]

FreeLoop == [kind |-> "free", task |-> 0, pc |-> "free", i |-> 0, resp |-> NoResp,
             nPolls |-> 0,        \* getTaskStatus calls made by the loop
             nGrace |-> 0,        \* grace delays elapsed
             nSleeps |-> 0,       \* inter-poll delays elapsed
             allActive |-> TRUE,  \* every call answered with statusName ACTIVE
             erred |-> FALSE,     \* a call threw
             last |-> "none"]     \* status of the last onUpdate

Finished == {"returned", "timeout", "threw", "done"}

FreeSlots(lps) == {l \in 1..MaxLoops : lps[l].pc \in Finished \cup {"free"}}

\* pollTaskUntilComplete up to its first await: the packages service waits
\* 5 s first (pollInterval > 0 always holds), the frontend service polls at once
NewPollLoop(t) == [FreeLoop EXCEPT !.kind = "poll", !.task = t,
                                   !.pc = IF svc = "packages" THEN "grace" ELSE "ready"]

StartLoop(lps, t) ==
    LET l == CHOOSE l \in FreeSlots(lps) : \A m \in FreeSlots(lps) : l <= m
    IN  [lps EXCEPT ![l] = NewPollLoop(t)]

\* the for condition of pollTaskUntilComplete
LoopContinues_offByOne(i) == i <= maxPolls
LoopContinues(i) == i < maxPolls

\* the catch of the loop rethrows on the last iteration
LastAttempt(i) == i = maxPolls - 1

\* ScoreDisplay's useEffect on [task], with startPolling inlined: a pending or
\* running task starts a poller unless isPolling, any other task clears
\* isPolling.  ok is FALSE when the model has no slot left for the poller.
Effect(task, polling, lps) ==
    IF task # NoTask /\ task.status \in {"pending", "running"}
    THEN IF polling
         THEN [ok |-> TRUE, isPolling |-> polling, loops |-> lps]
         ELSE IF FreeSlots(lps) = {}
              THEN [ok |-> FALSE, isPolling |-> polling, loops |-> lps]
              ELSE [ok |-> TRUE, isPolling |-> TRUE, loops |-> StartLoop(lps, task.taskId)]
    ELSE [ok |-> TRUE, isPolling |-> FALSE, loops |-> lps]

\* handleTaskUpdate's setTaskHistory
UpdateHistory(hist, u) ==
    [k \in 1..Len(hist) |-> IF hist[k].taskId = u.taskId THEN u ELSE hist[k]]

\* handleTaskTriggered's setTaskHistory
PushHistory(hist, t) ==
    <<t>> \o SubSeq(hist, 1, IF Len(hist) < HistoryKeep THEN Len(hist) ELSE HistoryKeep)

\* TriggerTEETask.handleSubmit -> App.handleTaskTriggered with the pending task
\* triggerTEETask returned, then the effect
TriggerTask ==
    /\ nTasks < MaxTasks
    /\ LET t == TaskRec(nTasks + 1, "pending", "none")
           e == Effect(t, isPolling, loops)
       IN  /\ e.ok
           /\ nTasks' = nTasks + 1
           /\ currentTask' = t
           /\ taskHistory' = PushHistory(taskHistory, t)
           /\ isPolling' = e.isPolling
           /\ loops' = e.loops
    /\ UNCHANGED <<svc, remote, fetches, offerVars, sub, rd, conc, gr, cx>>

\* a click on another task of the history list: setCurrentTask(task), then the
\* effect (a click on the task shown sets the same object: no render)
SelectTask ==
    /\ \E k \in 1..Len(taskHistory) :
          /\ k <= HistoryShown
          /\ taskHistory[k] # currentTask
          /\ LET e == Effect(taskHistory[k], isPolling, loops)
             IN  /\ e.ok
                 /\ currentTask' = taskHistory[k]
                 /\ isPolling' = e.isPolling
                 /\ loops' = e.loops
    /\ UNCHANGED <<svc, remote, nTasks, taskHistory, fetches, offerVars, sub, rd, conc, gr, cx>>

\* refreshTask up to its await
RefreshClick ==
    /\ currentTask # NoTask /\ ~isPolling
    /\ FreeSlots(loops) # {}
    /\ isPolling' = TRUE
    /\ LET l == CHOOSE l \in FreeSlots(loops) : \A m \in FreeSlots(loops) : l <= m
       IN  loops' = [loops EXCEPT ![l] = [FreeLoop EXCEPT !.kind = "refresh",
                                                         !.task = currentTask.taskId,
                                                         !.pc = "ready"]]
    /\ UNCHANGED <<svc, remote, nTasks, currentTask, taskHistory, fetches, offerVars, sub, rd, conc, gr, cx>>

\* the 5 s wait before the first poll (packages service, lines 274-277)
GraceDelay ==
    /\ \E l \in 1..MaxLoops :
          /\ loops[l].pc = "grace"
          /\ loops' = [loops EXCEPT ![l].pc = "ready", ![l].nGrace = @ + 1]
    /\ UNCHANGED <<svc, remote, nTasks, currentTask, taskHistory, isPolling, fetches, offerVars, sub, rd, conc, gr, cx>>

Bump(n) == IF n < MaxFetch THEN n + 1 ELSE n

\* a getTaskStatus call runs against the ledger; its answer is in flight
StatusRequest ==
    /\ \E l \in 1..MaxLoops :
          /\ loops[l].pc = "ready"
          /\ \E r \in getTaskStatus(remote[loops[l].task]) :
                /\ loops' = [loops EXCEPT ![l].pc = "inflight", ![l].resp = r,
                                          ![l].nPolls = @ + 1,
                                          ![l].allActive = @ /\ ~r.threw /\ r.statusName = "ACTIVE",
                                          ![l].erred = @ \/ r.threw]
                /\ fetches' = IF r.fetched
                              THEN [fetches EXCEPT ![loops[l].task] = Bump(@)]
                              ELSE fetches
    /\ UNCHANGED <<svc, remote, nTasks, currentTask, taskHistory, isPolling, offerVars, sub, rd, conc, gr, cx>>

\* the answer reaches pollTaskUntilComplete (lines 281-298): onUpdate, i.e.
\* handleTaskUpdate and the effect; a terminal task is returned to
\* startPolling, which updates again and clears isPolling; a throw is caught
\* and, on the last iteration, rethrown to startPolling
PollDeliver ==
    /\ \E l \in 1..MaxLoops :
          /\ loops[l].kind = "poll" /\ loops[l].pc = "inflight"
          /\ LET lp == loops[l]
                 r == lp.resp
                 u == TaskRec(lp.task, r.status, r.result)
             IN  IF r.threw
                 THEN /\ loops' = [loops EXCEPT ![l].pc = IF LastAttempt(lp.i) THEN "threw" ELSE "retry",
                                                ![l].resp = NoResp]
                      /\ isPolling' = IF LastAttempt(lp.i) THEN FALSE ELSE isPolling
                      /\ UNCHANGED <<currentTask, taskHistory>>
                 ELSE LET lps == [loops EXCEPT ![l].pc = IF Terminal(r.status) THEN "returned" ELSE "sleep",
                                               ![l].resp = NoResp,
                                               ![l].last = r.status]
                          e == Effect(u, isPolling, lps)
                      IN  /\ e.ok
                          /\ currentTask' = u
                          /\ taskHistory' = UpdateHistory(taskHistory, u)
                          /\ isPolling' = e.isPolling
                          /\ loops' = e.loops
    /\ UNCHANGED <<svc, remote, nTasks, fetches, offerVars, sub, rd, conc, gr, cx>>

\* the i++ of the for loop, after the delay of the try (line 291, pc "sleep")
\* or of the catch (line 297, pc "retry")
NextIndex_freeRetry(lp) == IF lp.pc = "retry" THEN lp.i ELSE lp.i + 1
NextIndex(lp) == lp.i + 1

\* the inter-poll delay elapses and the for condition is tested; past the
\* budget the loop throws 'Task polling timeout' and startPolling clears isPolling
SleepDone ==
    /\ \E l \in 1..MaxLoops :
          /\ loops[l].pc \in {"sleep", "retry"}
          /\ IF LoopContinues(NextIndex(loops[l]))
             THEN /\ loops' = [loops EXCEPT ![l].pc = "ready", ![l].i = NextIndex(loops[l]),
                                            ![l].nSleeps = @ + 1]
                  /\ UNCHANGED isPolling
             ELSE /\ loops' = [loops EXCEPT ![l].pc = "timeout", ![l].i = NextIndex(loops[l]),
                                            ![l].nSleeps = @ + 1]
                  /\ isPolling' = FALSE
    /\ UNCHANGED <<svc, remote, nTasks, currentTask, taskHistory, fetches, offerVars, sub, rd, conc, gr, cx>>

\* the answer reaches refreshTask (lines 71-80): handleTaskUpdate and
\* setIsPolling(false) in one render, then the effect; a throw only clears isPolling
RefreshDeliver ==
    /\ \E l \in 1..MaxLoops :
          /\ loops[l].kind = "refresh" /\ loops[l].pc = "inflight"
          /\ LET r == loops[l].resp
                 u == TaskRec(loops[l].task, r.status, r.result)
                 lps == [loops EXCEPT ![l].pc = "done", ![l].resp = NoResp]
             IN  IF r.threw
                 THEN /\ loops' = lps
                      /\ isPolling' = FALSE
                      /\ UNCHANGED <<currentTask, taskHistory>>
                 ELSE LET e == Effect(u, FALSE, lps)
                      IN  /\ e.ok
                          /\ currentTask' = u
                          /\ taskHistory' = UpdateHistory(taskHistory, u)
                          /\ isPolling' = e.isPolling
                          /\ loops' = e.loops
    /\ UNCHANGED <<svc, remote, nTasks, fetches, offerVars, sub, rd, conc, gr, cx>>

\* the ledger moves a triggered task on
RemoteAdvance ==
    /\ \E t \in 1..nTasks : \E st \in RemoteSuccessors(remote[t]) :
          remote' = [remote EXCEPT ![t] = st]
    /\ UNCHANGED <<svc, nTasks, currentTask, taskHistory, isPolling, loops, fetches, offerVars, sub, rd, conc, gr, cx>>

(***************************************************************************)
(* Result payloads: the text behind task.results.location, JSON.parse,     *)
(* parseFloat and parseInt on it.                                          *)
(***************************************************************************)
\* longest payload text (and longest args[0] of the scoring app)
MaxText == 4

\* characters of a payload text: three digits, the decimal point and a letter
Chars == {"0", "4", "8", ".", "a"}

Texts == SeqsUpTo(Chars, MaxText)

IsDigit(c) == c \in {DigitChar(d) : d \in 0..9}

DigitValue(c) == IF IsDigit(c) THEN CHOOSE d \in 0..9 : DigitChar(d) = c ELSE 0

\* how many digits the text holds from position i on
LeadDigits(t, i) ==
    CHOOSE k \in 0..Len(t) :
        /\ i + k - 1 <= Len(t)
        /\ \A j \in i..(i + k - 1) : IsDigit(t[j])
        /\ (i + k > Len(t) \/ ~IsDigit(t[i + k]))

\* the integer the k digits from position i on spell
RECURSIVE DigitsValue(_, _, _)
DigitsValue(t, i, k) ==
    IF k = 0 THEN 0 ELSE 10 * DigitsValue(t, i, k - 1) + DigitValue(t[i + k - 1])

\* the decimal literal at the head of a text: a integer digits, a point or
\* none, b fraction digits
LiteralHead(t) ==
    LET a == LeadDigits(t, 1)
        hasDot == a + 1 <= Len(t) /\ t[a + 1] = "."
        b == IF hasDot THEN LeadDigits(t, a + 2) ELSE 0
    IN  [a |-> a, hasDot |-> hasDot, b |-> b,
         value |-> Num(DigitsValue(t, 1, a) * Pow10(b) + (IF b > 0 THEN DigitsValue(t, a + 2, b) ELSE 0), b)]

\* parseFloat(text.trim()): the longest decimal literal the text starts with,
\* whatever follows it; NaN if it starts with none
parseFloat(t) ==
    LET h == LiteralHead(t)
    IN  IF h.a = 0 /\ (~h.hasDot \/ h.b = 0) THEN NaN ELSE h.value

\* parseInt(text): the digits the text starts with; NaN if it starts with none
parseInt(t) ==
    LET a == LeadDigits(t, 1)
    IN  IF a = 0 THEN NaN ELSE Num(DigitsValue(t, 1, a), 0)

\* the texts JSON.parse accepts: of these characters only a JSON number can
\* be spelt (no leading zero, digits on both sides of a point, nothing after)
JsonNumber(t) ==
    LET h == LiteralHead(t)
    IN  /\ h.a >= 1
        /\ (h.a = 1 \/ t[1] # "0")
        /\ \/ h.a = Len(t)
           \/ h.hasDot /\ h.b >= 1 /\ h.a + 1 + h.b = Len(t)

(***************************************************************************)
(* The scoring app (packages/tee-app/scoringLogic/src/app.js) and the      *)
(* reading of its result by getTaskStatus / parseTaskResult.               *)
(***************************************************************************)
\* a property of a result object that holds a number, or is missing
NoField == [present |-> FALSE, v |-> NaN]
Field(n) == [present |-> TRUE, v |-> n]

\* a value parseTaskResult hands back: an object with the ScoringResult
\* properties it has ("absent": no such property), a bare number, or nothing
NoObject == [shape |-> "undefined", value |-> NaN, scoring_logic |-> "absent", result |-> NoField,
             status |-> "absent", data_source |-> "absent", input_A |-> NoField,
             error_message |-> "absent"]

BareNumber(n) == [NoObject EXCEPT !.shape = "number", !.value = n]

\* integers the protected data may hold under the key "A"
ProtectedValues == {0, 4, 42}

\* lines 61-77: resultData
ResultData_inputHidden(usedProtectedData, A) ==
    [NoObject EXCEPT !.shape = "object", !.scoring_logic = "A * 2",
                     !.result = Field(Num(A * 2, 0)), !.status = "success",
                     !.data_source = IF usedProtectedData THEN "protected_data"
                                     ELSE "command_line_args"]
ResultData(usedProtectedData, A) ==
    IF usedProtectedData
    THEN [NoObject EXCEPT !.shape = "object", !.scoring_logic = "A * 2",
                          !.result = Field(Num(A * 2, 0)), !.status = "success",
                          !.data_source = "protected_data"]
    ELSE [NoObject EXCEPT !.shape = "object", !.input_A = Field(Num(A, 0)),
                          !.scoring_logic = "A * 2",
                          !.result = Field(Num(A * 2, 0)), !.status = "success",
                          !.data_source = "command_line_args"]

\* lines 93-96: errorData
ErrorData(e) == [NoObject EXCEPT !.shape = "object", !.status = "error", !.error_message = e]

\* the files a run writes, in order: result.json at the end of the try (line
\* 81) or in the catch (line 98), computed.json in the finally (lines 106-109)
OutputFiles_noFinally(failed) ==
    IF failed THEN <<"result.json">> ELSE <<"result.json", "computed.json">>
OutputFiles(failed) ==
    (IF failed THEN <<"result.json">> ELSE <<"result.json">>) \o <<"computed.json">>

\* main of the scoring app: what it writes to result.json and computed.json.
\* deserialized: the deserializer returned A; hasArgs, arg: process.argv[2]
main_flagLost(deserialized, protectedA, hasArgs, arg) ==
    [doc |-> ResultData(FALSE, IF deserialized THEN protectedA ELSE 0),
     computedPath |-> TRUE, computedError |-> "absent", writes |-> OutputFiles(FALSE)]
main(deserialized, protectedA, hasArgs, arg) ==
    LET withPath(doc, e) == [doc |-> doc, computedPath |-> TRUE, computedError |-> e,
                             writes |-> OutputFiles(e # "absent")]
    IN  IF deserialized
        THEN withPath(ResultData(TRUE, protectedA), "absent")
        ELSE IF hasArgs
             THEN IF parseInt(arg).nan
                  THEN withPath(ErrorData("NoValidArgs"), "NoValidArgs")
                  ELSE withPath(ResultData(FALSE, parseInt(arg).m), "absent")
             ELSE withPath(ErrorData("NoArgs"), "NoArgs")

\* what task.results.location serves: the result.json document the app wrote
\* (JSON.stringify of the object), or some other text
DocPayload(doc) == [kind |-> "doc", doc |-> doc, text |-> <<>>]
TextPayload(t) == [kind |-> "text", doc |-> NoObject, text |-> t]

\* JSON.parse(resultContent): the object of a result.json document, the
\* number of a JSON number; any other text throws
JsonParse(payload) ==
    IF payload.kind = "doc" THEN [ok |-> TRUE, value |-> payload.doc]
    ELSE IF JsonNumber(payload.text)
         THEN [ok |-> TRUE, value |-> BareNumber(LiteralHead(payload.text).value)]
         ELSE [ok |-> FALSE, value |-> NoObject]

\* parseTaskResult: the parsed JSON as it is, else the numeric fallback
parseTaskResult(payload) ==
    LET parsed == JsonParse(payload)
        numericResult == parseFloat(payload.text)
    IN  IF parsed.ok THEN parsed.value
        ELSE [NoObject EXCEPT !.shape = "object", !.scoring_logic = "A * 2",
                              !.result = Field(IF numericResult.nan THEN Num(0, 0) ELSE numericResult),
                              !.status = "success", !.data_source = "protected_data"]

IdleRead == [pc |-> "idle", doc |-> NoObject, computedPath |-> FALSE, computedError |-> "absent",
             usedProtectedData |-> FALSE,   \* the deserializer gave A
             inputOk |-> FALSE,             \* history: the run had an A to score
             writes |-> <<>>,               \* files written, in order
             payload |-> TextPayload(<<>>), statusName |-> "UNSET", status |-> "none",
             result |-> NoObject,
             nFetch |-> 0,    \* fetchTaskResult calls
             nParse |-> 0]    \* parseTaskResult calls

\* the app runs in the enclave
RunApp ==
    /\ rd.pc = "idle"
    /\ \E deserialized \in BOOLEAN, protectedA \in ProtectedValues, hasArgs \in BOOLEAN, arg \in Texts :
          LET out == main(deserialized, protectedA, hasArgs, arg)
          IN  rd' = [rd EXCEPT !.pc = "ran", !.doc = out.doc,
                               !.inputOk = deserialized \/ (hasArgs /\ ~parseInt(arg).nan),
                               !.usedProtectedData = deserialized,
                               !.computedPath = out.computedPath,
                               !.writes = out.writes,
                               !.computedError = out.computedError]
    /\ UNCHANGED <<offerVars, sub, conc, gr, cx, uiVars>>

\* the task completes: results.location serves the document, or another text
Publish ==
    /\ rd.pc = "ran"
    /\ \E p \in {DocPayload(rd.doc)} \cup {TextPayload(t) : t \in Texts} :
          rd' = [rd EXCEPT !.pc = "stored", !.payload = p, !.statusName = "COMPLETED"]
    /\ UNCHANGED <<offerVars, sub, conc, gr, cx, uiVars>>

\* getTaskStatus on the completed task (lines 196-207): with a
\* results.location the payload is fetched and parsed; a failed fetch is
\* logged and leaves result undefined
ReadResult ==
    /\ rd.pc = "stored"
    /\ \E hasLocation \in BOOLEAN, fetchOk \in BOOLEAN :
          rd' = [rd EXCEPT !.pc = "read",
                           !.status = MapStatus(rd.statusName),
                           !.nFetch = IF hasLocation THEN @ + 1 ELSE @,
                           !.nParse = IF hasLocation /\ fetchOk THEN @ + 1 ELSE @,
                           !.result = IF hasLocation /\ fetchOk THEN parseTaskResult(rd.payload)
                                      ELSE NoObject]
    /\ UNCHANGED <<offerVars, sub, conc, gr, cx, uiVars>>

\* the worker runs the task of the deal: the app gets the request's args as
\* process.argv[2] and, with a dataset, the protected data; the result.json it
\* writes is what results.location serves once the task is completed
RunTask ==
    /\ sub.pc = "done" /\ rd.pc = "idle"
    /\ \E deserialized \in (IF sub.dataset THEN BOOLEAN ELSE {FALSE}), protectedA \in ProtectedValues :
          LET out == main(deserialized, protectedA, sub.args # NoArgs, sub.args)
          IN  rd' = [rd EXCEPT !.pc = "stored", !.doc = out.doc,
                               !.inputOk = deserialized \/ ~parseInt(sub.args).nan,
                               !.usedProtectedData = deserialized,
                               !.computedPath = out.computedPath,
                               !.writes = out.writes,
                               !.computedError = out.computedError,
                               !.payload = DocPayload(out.doc),
                               !.statusName = "COMPLETED"]
    /\ UNCHANGED <<offerVars, sub, conc, gr, cx, uiVars>>

\* task.show answers a statusName outside the cases of the switch (another
\* version of the SDK or of the protocol) for a task that has not ended
RemoteUnrecognised ==
    /\ \E t \in 1..nTasks :
          /\ remote[t] \in {"UNSET", "ACTIVE", "REVEALING"}
          /\ remote' = [remote EXCEPT ![t] = "UNRECOGNISED"]
    /\ UNCHANGED <<svc, nTasks, currentTask, taskHistory, isPolling, loops, fetches, offerVars, sub, rd, conc, gr, cx>>

(***************************************************************************)
(* Several triggerTEETask / getTaskStatus calls at the same time on the    *)
(* one exported service instance.  A call keeps orderParams,               *)
(* signedRequestOrder, dealId and taskId in locals; the instance fields    *)
(* (iexec, isInitialized) are only read.  The ledger is shared: every      *)
(* matchOrders adds a deal.                                                *)
(***************************************************************************)
\* calls running at the same time
NPipes == 2

NoRequestOrder == [salt |-> 0, args |-> NoArgs]
NoHandle == [taskId |-> 0, dealId |-> 0]

IdlePipe == [pc |-> "idle", args |-> NoArgs, signedRequestOrder |-> NoRequestOrder,
             dealId |-> 0, taskId |-> 0, task |-> NoHandle,
             fallbackShows |-> 0,   \* deal.show calls of triggerTEETask
             pollShows |-> 0,       \* deal.show calls of getTaskStatus
             pollError |-> "none"]  \* the call getTaskStatus's error came from

IdleConc == [pipes |-> [p \in 1..NPipes |-> IdlePipe], deals |-> <<>>]

\* deal.computeTaskId(dealId, index): one id per deal and index
computeTaskId(dealId, index) == 10 * dealId + index

\* task.show(taskId).dealid
dealid(taskId) == taskId \div 10

\* const dealId = matchResult.dealid: the deal id a call goes on with is its own local
DealIdOf_shared(c, p) == Len(c.deals)
DealIdOf(c, p) == c.pipes[p].dealId

\* lines 65-108: the call starts and builds orderParams
PipeTrigger ==
    /\ \E p \in 1..NPipes, inputValue \in InputValues :
          /\ conc.pipes[p].pc = "idle"
          /\ conc' = [conc EXCEPT !.pipes[p].pc = "sign", !.pipes[p].args = ArgsOf(inputValue)]
    /\ UNCHANGED <<offerVars, sub, rd, gr, cx, uiVars>>

\* lines 111-112: createRequestorder and signRequestorder (every signed order
\* has its own salt)
PipeSign ==
    /\ \E p \in 1..NPipes :
          /\ conc.pipes[p].pc = "sign"
          /\ conc' = [conc EXCEPT !.pipes[p].pc = "orders",
                                  !.pipes[p].signedRequestOrder = [salt |-> p, args |-> conc.pipes[p].args]]
    /\ UNCHANGED <<offerVars, sub, rd, gr, cx, uiVars>>

\* lines 116-117: the app order and the workerpool order are resolved, or the
\* call ends
PipeOrders ==
    /\ \E p \in 1..NPipes, resolved \in BOOLEAN :
          /\ conc.pipes[p].pc = "orders"
          /\ conc' = [conc EXCEPT !.pipes[p].pc = IF resolved THEN "match" ELSE "failed"]
    /\ UNCHANGED <<offerVars, sub, rd, gr, cx, uiVars>>

\* lines 131-133: matchOrders makes a deal of the call's signed request on the
\* ledger and answers its id, or throws
PipeMatch ==
    /\ \E p \in 1..NPipes, threw \in BOOLEAN :
          /\ conc.pipes[p].pc = "match"
          /\ conc' = IF threw
                     THEN [conc EXCEPT !.pipes[p].pc = "failed"]
                     ELSE [conc EXCEPT !.pipes[p].pc = "taskid",
                                       !.pipes[p].dealId = Len(conc.deals) + 1,
                                       !.deals = Append(@, conc.pipes[p].signedRequestOrder)]
    /\ UNCHANGED <<offerVars, sub, rd, gr, cx, uiVars>>

\* lines 139-144: computeTaskId(dealId, 0); its throw leads to the fallback
\* (packages service) or ends the call (frontend service, line 105)
PipeTaskId ==
    /\ \E p \in 1..NPipes, threw \in BOOLEAN :
          /\ conc.pipes[p].pc = "taskid"
          /\ conc' = IF threw
                     THEN [conc EXCEPT !.pipes[p].pc = IF svc = "packages" THEN "dealshow" ELSE "failed"]
                     ELSE [conc EXCEPT !.pipes[p].pc = "done",
                                       !.pipes[p].taskId = computeTaskId(DealIdOf(conc, p), 0)]
    /\ UNCHANGED <<offerVars, sub, rd, gr, cx, uiVars>>

\* lines 145-161: deal.show(dealId).tasks, first entry
PipeDealShow ==
    /\ \E p \in 1..NPipes, hasTasks \in BOOLEAN :
          /\ conc.pipes[p].pc = "dealshow"
          /\ conc' = IF hasTasks
                     THEN [conc EXCEPT !.pipes[p].pc = "done",
                                       !.pipes[p].fallbackShows = @ + 1,
                                       !.pipes[p].taskId = computeTaskId(DealIdOf(conc, p), 0)]
                     ELSE [conc EXCEPT !.pipes[p].pc = "failed", !.pipes[p].fallbackShows = @ + 1]
    /\ UNCHANGED <<offerVars, sub, rd, gr, cx, uiVars>>

\* pollTaskUntilComplete(taskId) -> getTaskStatus(taskId), lines 183-227:
\* task.show(taskId), then deal.show(task.dealid); a throw of either is
\* rethrown as 'Failed to get task status'; the task returned carries the
\* taskId asked for and the dealid of task.show
PipePoll ==
    /\ \E p \in 1..NPipes, taskShown \in BOOLEAN, dealShown \in BOOLEAN :
          /\ conc.pipes[p].pc = "done"
          /\ conc' = IF ~taskShown
                     THEN [conc EXCEPT !.pipes[p].pc = "pollthrew", !.pipes[p].pollError = "task.show"]
                     ELSE IF ~dealShown
                          THEN [conc EXCEPT !.pipes[p].pc = "pollthrew",
                                            !.pipes[p].pollShows = @ + 1,
                                            !.pipes[p].pollError = "deal.show"]
                          ELSE [conc EXCEPT !.pipes[p].pc = "polled",
                                            !.pipes[p].pollShows = @ + 1,
                                            !.pipes[p].task = [taskId |-> conc.pipes[p].taskId,
                                                               dealId |-> dealid(conc.pipes[p].taskId)]]
    /\ UNCHANGED <<offerVars, sub, rd, gr, cx, uiVars>>

(***************************************************************************)
(* Access grants (packages/data-protector/src/grantAccess.ts and           *)
(* protectScoreData.ts): the batch grants of AccessManager and the         *)
(* grant-access command line.                                              *)
(***************************************************************************)
\* longest list of users or apps given to a batch grant
MaxBatch == 2

Addresses == {"0x22", "0x33"}

\* what dataProtector.core.grantAccess settles with: the grant, or a thrown
\* Error with a message, or a thrown value that is no Error
Granted == [ok |-> TRUE, isError |-> FALSE, text |-> "grant"]
CoreOutcomes ==
    {Granted}
        \cup {[ok |-> FALSE, isError |-> TRUE, text |-> m] : m \in {"denied", "network"}}
        \cup {[ok |-> FALSE, isError |-> FALSE, text |-> "rejected"]}

\* createDataProtectorError(message, originalError): an Error whose message
\* is the message, a colon and originalError.message or String(originalError)
createDataProtectorError(message, originalError) ==
    [ok |-> FALSE, isError |-> TRUE, text |-> <<message, originalError.text>>]

\* grantAccessToScore: the grant result, or the typed error thrown
grantAccessToScore(outcome) ==
    IF outcome.ok THEN [threw |-> FALSE, value |-> outcome]
    ELSE [threw |-> TRUE, value |-> createDataProtectorError("Failed to grant access", outcome)]

\* error instanceof Error ? error.message : String(error)
errorMessage(error) == IF error.isError THEN error.text ELSE <<"String", error.text>>

\* one entry of the results of a batch grant (lines 50, 54)
BatchEntry_dropFailure(who, call) ==
    [who |-> who, success |-> TRUE, error |-> <<>>]
BatchEntry(who, call) ==
    IF call.threw THEN [who |-> who, success |-> FALSE, error |-> errorMessage(call.value)]
    ELSE [who |-> who, success |-> TRUE, error |-> <<>>]

IdleGrant == [pc |-> "idle", kind |-> "none", list |-> <<>>,
              results |-> <<>>,
              attempts |-> <<>>,     \* history: the grants asked of the core, in order
              threw |-> FALSE,       \* the method threw
              printed |-> "none",    \* last message of the command line
              exit |-> -1]           \* exit status; -1: running, 0: ended normally

\* grantAccessToMultipleUsers / grantAccessToMultipleApps is called
BatchCall ==
    /\ gr.pc = "idle"
    /\ \E kind \in {"users", "apps"}, list \in SeqsUpTo(Addresses, MaxBatch) :
          gr' = [gr EXCEPT !.pc = "loop", !.kind = kind, !.list = list]
    /\ UNCHANGED <<offerVars, sub, rd, conc, cx, uiVars>>

\* one turn of the for loop (lines 40-56, 78-94)
BatchStep ==
    /\ gr.pc = "loop" /\ Len(gr.results) < Len(gr.list)
    /\ \E outcome \in CoreOutcomes :
          LET who == gr.list[Len(gr.results) + 1]
              call == grantAccessToScore(outcome)
          IN  gr' = [gr EXCEPT !.results = Append(@, BatchEntry(who, call)),
                               !.attempts = Append(@, [who |-> who, outcome |-> outcome])]
    /\ UNCHANGED <<offerVars, sub, rd, conc, cx, uiVars>>

\* lines 58, 96: return results
BatchReturn ==
    /\ gr.pc = "loop" /\ Len(gr.results) = Len(gr.list)
    /\ gr' = [gr EXCEPT !.pc = "returned"]
    /\ UNCHANGED <<offerVars, sub, rd, conc, cx, uiVars>>

\* grantPublicAccess (lines 106-131): the throw of grantAccessToScore is
\* caught and returned as {success: false, error}
grantPublicAccess(outcome) ==
    LET call == grantAccessToScore(outcome)
    IN  [threw |-> FALSE, value |-> BatchEntry("public", call)]

\* main of grantAccess.ts up to its await (lines 172-203): fewer than three
\* arguments print the usage and exit 1; a throwing AccessManager constructor
\* goes to the catch
CliStart ==
    /\ gr.pc = "idle"
    /\ \E nArgs \in 2..3, form \in {"public", "user"}, constructed \in BOOLEAN :
          gr' = IF nArgs < 3
                THEN [gr EXCEPT !.pc = "exited", !.kind = "cli", !.printed = "usage", !.exit = 1]
                ELSE IF ~constructed
                     THEN [gr EXCEPT !.pc = "exited", !.kind = form, !.printed = "failure", !.exit = 1]
                     ELSE [gr EXCEPT !.pc = "granting", !.kind = form]
    /\ UNCHANGED <<offerVars, sub, rd, conc, cx, uiVars>>

\* lines 186-209: the awaited grant settles; main prints the success message,
\* or the catch prints the failure and exits 1
CliFinish ==
    /\ gr.pc = "granting"
    /\ \E outcome \in CoreOutcomes :
          LET call == IF gr.kind = "public" THEN grantPublicAccess(outcome)
                      ELSE grantAccessToScore(outcome)
              s == [gr EXCEPT !.pc = "exited",
                              !.attempts = Append(@, [who |-> gr.kind, outcome |-> outcome])]
          IN  gr' = IF call.threw
                    THEN [s EXCEPT !.printed = "failure", !.exit = 1]
                    ELSE [s EXCEPT !.printed = "success", !.exit = 0]
    /\ UNCHANGED <<offerVars, sub, rd, conc, cx, uiVars>>

(***************************************************************************)
(* The connection of the service: initialize() and isConnected()           *)
(* (iexecService.ts, lines 10-64 and 312-314).                             *)
(***************************************************************************)
\* initialize() calls in a session
MaxInits == 3

\* Bellecour
BellecourChainId == 134

\* chains the wallet may be on
ChainIds == {BellecourChainId, 1}

\* the instance after construction (lines 11-14)
NewService == [pc |-> "idle",
               provider |-> FALSE,       \* this.provider is set
               iexec |-> FALSE,          \* this.iexec is set
               isInitialized |-> FALSE,
               nInits |-> 0,             \* initialize() calls made
               last |-> "none",          \* how the most recent initialize() ended
               chainId |-> 0]            \* chain the most recent initialize() saw last

\* isConnected()
isConnected(s) == s.isInitialized /\ s.iexec

\* the guard of triggerTEETask (line 66): 'iExec service not initialized'
RejectsTrigger(s) == ~s.iexec \/ ~s.isInitialized

\* the catch of line 60 rethrows: the call ends, the fields stay as they are
InitThrows(s, e) == [s EXCEPT !.pc = "idle", !.last = e]

\* line 57
InitSucceeds(s) == [s EXCEPT !.pc = "idle", !.last = "ok", !.isInitialized = TRUE]

\* initialize() is called; without window.ethereum it throws (lines 16-23)
InitCall ==
    /\ cx.pc = "idle" /\ cx.nInits < MaxInits
    /\ \E hasMetaMask \in BOOLEAN :
          LET s == [cx EXCEPT !.nInits = @ + 1, !.chainId = 0]
          IN  cx' = IF hasMetaMask THEN [s EXCEPT !.pc = "accounts"]
                    ELSE InitThrows(s, "NoMetaMask")
    /\ UNCHANGED <<offerVars, sub, rd, conc, gr, uiVars>>

\* lines 25-28: eth_requestAccounts settles, the provider is created
InitAccounts ==
    /\ cx.pc = "accounts"
    /\ \E granted \in BOOLEAN :
          cx' = IF granted THEN [cx EXCEPT !.pc = "signer", !.provider = TRUE]
                ELSE InitThrows(cx, "Rejected")
    /\ UNCHANGED <<offerVars, sub, rd, conc, gr, uiVars>>

\* lines 29-35: getSigner settles, the IExec object is created
InitSigner ==
    /\ cx.pc = "signer"
    /\ \E signed \in BOOLEAN :
          cx' = IF signed THEN [cx EXCEPT !.pc = "network", !.iexec = TRUE]
                ELSE InitThrows(cx, "NoSigner")
    /\ UNCHANGED <<offerVars, sub, rd, conc, gr, uiVars>>

\* lines 38-46: getNetwork settles; on Bellecour the service is initialized
InitNetwork ==
    /\ cx.pc = "network"
    /\ \E chainId \in ChainIds :
          cx' = IF chainId = BellecourChainId THEN InitSucceeds([cx EXCEPT !.chainId = chainId])
                ELSE [cx EXCEPT !.pc = "switch", !.chainId = chainId]
    /\ UNCHANGED <<offerVars, sub, rd, conc, gr, uiVars>>

\* switchToBellecour (lines 324-356) settles
InitSwitch ==
    /\ cx.pc = "switch"
    /\ \E outcome \in {"switched", "FailedToSwitch", "FailedToAdd"} :
          cx' = IF outcome = "switched" THEN [cx EXCEPT !.pc = "recheck"]
                ELSE InitThrows(cx, outcome)
    /\ UNCHANGED <<offerVars, sub, rd, conc, gr, uiVars>>

\* lines 50-54: the network is read again
InitRecheck ==
    /\ cx.pc = "recheck"
    /\ \E chainId \in ChainIds :
          cx' = IF chainId = BellecourChainId THEN InitSucceeds([cx EXCEPT !.chainId = chainId])
                ELSE InitThrows([cx EXCEPT !.chainId = chainId], "WrongChain")
    /\ UNCHANGED <<offerVars, sub, rd, conc, gr, uiVars>>

\* the state of the page once mounted, before any task
InitUI ==
    /\ remote = [t \in 1..MaxTasks |-> "UNSET"]
    /\ nTasks = 0
    /\ currentTask = NoTask
    /\ taskHistory = <<>>
    /\ isPolling = FALSE
    /\ loops = [l \in 1..MaxLoops |-> FreeLoop]
    /\ fetches = [t \in 1..MaxTasks |-> 0]

InitIdle ==
    /\ sub = IdleSub
    /\ rd = IdleRead
    /\ conc = IdleConc
    /\ gr = IdleGrant
    /\ cx = NewService
    /\ lkKind = "app" /\ lkDebug = EmptyResponse /\ lkBook = EmptyResponse
    /\ lkDone = FALSE /\ lkResult = NotFound

\* the first task of a session is triggered
TriggerFirst == nTasks = 0 /\ TriggerTask

InitPoll == InitIdle /\ InitUI /\ svc \in Services

NextPoll ==
    \/ TriggerFirst
    \/ GraceDelay
    \/ StatusRequest
    \/ PollDeliver
    \/ SleepDone
    \/ RemoteAdvance
    \/ RemoteUnrecognised

SpecPoll == InitPoll /\ [][NextPoll]_vars

\* timers fire and SDK calls settle
SpecPollFair ==
    SpecPoll /\ WF_vars(GraceDelay) /\ WF_vars(StatusRequest) /\ WF_vars(PollDeliver) /\ WF_vars(SleepDone)

NextUI ==
    \/ TriggerTask
    \/ SelectTask
    \/ RefreshClick
    \/ StatusRequest
    \/ PollDeliver
    \/ SleepDone
    \/ RefreshDeliver
    \/ RemoteAdvance

\* ScoreDisplay.tsx:19 imports the frontend service
InitUIPage == InitIdle /\ InitUI /\ svc = "frontend"

SpecUI == InitUIPage /\ [][NextUI]_vars

\* the page with timers that fire and SDK calls that settle; the user's
\* clicks and the ledger are under no obligation
SpecUIFair ==
    SpecUI /\ WF_vars(StatusRequest) /\ WF_vars(PollDeliver) /\ WF_vars(SleepDone)
           /\ WF_vars(RefreshDeliver)

InitSubmit ==
    /\ InitUI /\ svc \in Services
    /\ sub = IdleSub
    /\ rd = IdleRead
    /\ conc = IdleConc
    /\ gr = IdleGrant
    /\ cx = NewService
    /\ lkKind = "app" /\ lkDebug = EmptyResponse /\ lkBook = EmptyResponse
    /\ lkDone = FALSE /\ lkResult = NotFound

NextSubmit ==
    \/ Trigger
    \/ DatasetLookup
    \/ SignRequest
    \/ FetchAppOrder
    \/ FetchWorkerpoolOrder
    \/ FetchDatasetOrder
    \/ MatchOrders
    \/ ComputeTaskId
    \/ DealShow

SpecSubmit == InitSubmit /\ [][NextSubmit]_vars

\* a submission, the run of its task and the reading of its result
NextRun ==
    \/ NextSubmit
    \/ RunTask
    \/ ReadResult

SpecRun == InitSubmit /\ [][NextRun]_vars

NextConc ==
    \/ PipeTrigger
    \/ PipeSign
    \/ PipeOrders
    \/ PipeMatch
    \/ PipeTaskId
    \/ PipeDealShow
    \/ PipePoll

SpecConc == InitSubmit /\ [][NextConc]_vars

NextGrant ==
    \/ BatchCall
    \/ BatchStep
    \/ BatchReturn
    \/ CliStart
    \/ CliFinish

SpecGrant == InitSubmit /\ [][NextGrant]_vars

NextConn ==
    \/ InitCall
    \/ InitAccounts
    \/ InitSigner
    \/ InitNetwork
    \/ InitSwitch
    \/ InitRecheck

SpecConn == InitSubmit /\ [][NextConn]_vars

InitOffers ==
    /\ InitUI /\ svc = "packages"
    /\ sub = IdleSub
    /\ rd = IdleRead
    /\ conc = IdleConc
    /\ gr = IdleGrant
    /\ cx = NewService
    /\ lkKind \in {"app", "pool", "dataset"}
    /\ lkDebug \in IF lkKind = "pool" THEN Responses(OrderEntry) ELSE {EmptyResponse}
    /\ lkBook \in IF lkKind = "dataset" THEN Responses(DatasetEntry) ELSE Responses(OrderEntry)
    /\ lkDone = FALSE
    /\ lkResult = NotFound

ResolveApp ==
    /\ lkKind = "app" /\ ~lkDone
    /\ lkResult' = getAppOrder(lkBook)
    /\ lkDone' = TRUE
    /\ UNCHANGED <<lkKind, lkDebug, lkBook, sub, rd, conc, gr, cx, uiVars>>

ResolvePool ==
    /\ lkKind = "pool" /\ ~lkDone
    /\ lkResult' = getWorkerpoolOrder(lkDebug, lkBook)
    /\ lkDone' = TRUE
    /\ UNCHANGED <<lkKind, lkDebug, lkBook, sub, rd, conc, gr, cx, uiVars>>

ResolveDataset ==
    /\ lkKind = "dataset" /\ ~lkDone
    /\ lkResult' = getDatasetOrder(lkBook)
    /\ lkDone' = TRUE
    /\ UNCHANGED <<lkKind, lkDebug, lkBook, sub, rd, conc, gr, cx, uiVars>>

NextOffers ==
    \/ ResolveApp
    \/ ResolvePool
    \/ ResolveDataset

SpecOffers == InitOffers /\ [][NextOffers]_vars

InitResult == InitIdle /\ InitUI /\ svc = "packages"

NextResult ==
    \/ RunApp
    \/ Publish
    \/ ReadResult

SpecResult == InitResult /\ [][NextResult]_vars


(***************************************************************************)
(* Claims about offer resolution and submission.                           *)
(***************************************************************************)

\* C1 (confidentiality non-downgrade): in the service whose request carries
\* the tag 0b11 (packages), when no fetched workerpool book holds an
\* order with remaining volume and both the TEE and the SCONE bit, the
\* submission ends in the 'No TEE-enabled workerpools' error once the pool has
\* been resolved and matchOrders is not called; and no deal exists with a
\* workerpool order that lacks one of the two bits.
C1_NoDowngrade ==
    svc = "packages" =>
        /\ (sub.pc \in {"dataset2", "match", "taskid", "dealshow", "done", "failed"}
                /\ sub.apporder.found /\ ~sub.confAvail)
              => (sub.pc = "failed" /\ sub.error = "NoTeeWorkerpool" /\ sub.matchCalls = 0)
        /\ sub.dealId # 0
              => BitAnd(sub.workerpoolorder.order.tag, RequestTag) = RequestTag

\* C2 (subset matching): the order getWorkerpoolOrder returns carries every bit
\* of the requirement 0b11; extra bits do not disqualify an order.
C2_SubsetMatching ==
    (lkKind = "pool" /\ lkDone)
        => /\ lkResult.found
                => BitAnd(lkResult.order.tag, RequestTag) = RequestTag
           /\ (lkBook.ok /\ \E i \in 1..Len(lkBook.orders) :
                   /\ lkBook.orders[i].remaining > 0
                   /\ BitAnd(lkBook.orders[i].tag, RequestTag) = RequestTag)
                => lkResult.found

AllExhausted(resp) == \A i \in 1..Len(resp.orders) : resp.orders[i].remaining = 0

\* C3 (volume exclusion): no resolution function returns an order whose
\* remaining volume is 0; when every published order has remaining volume 0
\* the result is not-found.
C3_VolumeExclusion ==
    lkDone
        => /\ lkResult.found => lkResult.order.remaining > 0
           /\ (AllExhausted(lkBook) /\ AllExhausted(lkDebug)) => ~lkResult.found

\* the orders a lookup may select under the claim: remaining volume, and for a
\* workerpool every required bit (any category)
EligibleOrders ==
    LET ofBook(resp) == IF resp.ok THEN {resp.orders[i] : i \in 1..Len(resp.orders)} ELSE {}
    IN  IF lkKind = "pool"
        THEN {e \in ofBook(lkDebug) \cup ofBook(lkBook) : ConfidentialOffer(e)}
        ELSE {e \in ofBook(lkBook) : e.remaining > 0}

\* C4 (price minimality): the order returned by getAppOrder or
\* getWorkerpoolOrder, by whichever lookup path, is priced at the minimum over
\* the eligible orders; no strictly cheaper eligible order exists.
C4_PriceMinimality ==
    (lkKind \in {"app", "pool"} /\ lkDone /\ lkResult.found)
        => \A e \in EligibleOrders : lkResult.order.price <= e.price


(***************************************************************************)
(* Claims about status tracking and polling.                               *)
(***************************************************************************)

\* the record App keeps of task t (the history entry; currentTask is the same
\* object whenever it shows t)
Tracked(t) ==
    IF \E k \in 1..Len(taskHistory) : taskHistory[k].taskId = t
    THEN taskHistory[CHOOSE k \in 1..Len(taskHistory) : taskHistory[k].taskId = t]
    ELSE NoTask

\* C5 (state monotonicity): once the tracked status of a job is 'completed' or
\* 'failed', no step makes it 'pending' or 'running'.
C5_StateMonotonic ==
    [][\A t \in 1..MaxTasks :
          Terminal(Tracked(t).status) => Tracked(t).status' \notin {"pending", "running"}]_vars

\* C6 (idempotent terminal read): once a job is tracked as completed, no step
\* changes its outcome or fetches the payload again, and fetchTaskResult runs
\* at most once for a job.
C6_IdempotentTerminalRead ==
    [][\A t \in 1..MaxTasks :
          /\ fetches'[t] <= 1
          /\ Tracked(t).status = "completed"
                => (fetches'[t] = fetches[t] /\ Tracked(t)' = Tracked(t))]_vars

PollLoops == {l \in 1..MaxLoops : loops[l].kind = "poll"}

\* C7 (poll timeout): a poll loop whose every status poll found the task ACTIVE
\* makes at most maxPolls polls, ends only by the 'Task polling timeout' error,
\* then after exactly maxPolls polls, with 'running' as the last status
\* reported and as the tracked status of the job.
C7_PollTimeout ==
    \A l \in PollLoops :
        loops[l].allActive
            => /\ loops[l].nPolls <= maxPolls
               /\ loops[l].pc \in Finished
                    => /\ loops[l].pc = "timeout"
                       /\ loops[l].nPolls = maxPolls
                       /\ loops[l].last = "running"
                       /\ Tracked(loops[l].task).status = "running"

C7_Witness ==
    \E l \in PollLoops : loops[l].allActive /\ loops[l].pc = "timeout"

\* C8 (polling never raises on transient I/O): no poll loop ends with the error
\* of a status poll.
C8_NeverRaises ==
    \A l \in PollLoops : loops[l].pc # "threw"

\* C9 (bounded polling): a poll loop makes at most maxPolls status polls,
\* those that threw included, and every poll loop ends.
C9_BoundedPolling ==
    /\ [](\A l \in PollLoops : loops[l].nPolls <= maxPolls)
    /\ \A l \in 1..MaxLoops : (loops[l].kind = "poll") ~> (loops[l].pc \in Finished)

C9_Witness ==
    \E l \in PollLoops :
        loops[l].pc \in Finished /\ loops[l].erred /\ loops[l].nPolls = maxPolls

\* C10 (initial grace delay): every poll loop waits the grace delay once,
\* before its first status poll, and only inter-poll delays follow: one per
\* poll made.
C10_GraceDelay ==
    \A l \in PollLoops :
        /\ loops[l].nGrace <= 1
        /\ loops[l].nPolls > 0 => loops[l].nGrace = 1
        /\ loops[l].pc = "ready" => loops[l].nGrace = 1
        /\ loops[l].nSleeps <= loops[l].nPolls

\* C11 (cooperative cancellation): once the page shows another task than the
\* one a poll loop follows (the effect on [task] re-runs: the only signal a
\* cancellation could hang on), the loop starts no status poll and no answer
\* of it changes the tracked task.
C11_CooperativeCancel ==
    [][\A l \in 1..MaxLoops :
          (loops[l].kind = "poll" /\ loops[l].pc \notin Finished /\ currentTask.taskId # loops[l].task)
              => /\ loops'[l].nPolls = loops[l].nPolls
                 /\ Tracked(loops[l].task)' = Tracked(loops[l].task)]_vars

\* the getTaskStatus answers in flight
InFlight == {l \in 1..MaxLoops : loops[l].pc = "inflight" /\ ~loops[l].resp.threw}

\* C12 (remote-state mapping): whatever status a loop reported last, an answer
\* of getTaskStatus is 'running' for ACTIVE and REVEALING, 'completed' for
\* COMPLETED and 'failed' for FAILED and TIMEOUT.
C12_RemoteStateMapping ==
    \A l \in InFlight :
        LET r == loops[l].resp
        IN  /\ r.statusName \in {"ACTIVE", "REVEALING"} => r.status = "running"
            /\ r.statusName = "COMPLETED" => r.status = "completed"
            /\ r.statusName \in {"FAILED", "TIMEOUT"} => r.status = "failed"

C12_Witness ==
    \E l \in InFlight :
        loops[l].resp.statusName = "REVEALING" /\ loops[l].last = "pending"

\* the statusName values of the task lifecycle
LifecycleStates == {"UNSET", "ACTIVE", "REVEALING", "COMPLETED", "TIMEOUT", "FAILED"}

\* C13 (unknown remote states): an answer of getTaskStatus for a statusName
\* outside the lifecycle values is never 'pending' (which a poll loop takes
\* as a reason to poll again).
C13_UnknownReported ==
    \A l \in InFlight :
        loops[l].resp.statusName \notin LifecycleStates => loops[l].resp.status # "pending"

(***************************************************************************)
(* Claims about the result payload.                                        *)
(***************************************************************************)
\* the whole text is one decimal literal
IsNumericLiteral(t) ==
    LET h == LiteralHead(t)
    IN  \/ h.a >= 1 /\ (h.a = Len(t) \/ (h.hasDot /\ h.a + 1 + h.b = Len(t)))
        \/ h.a = 0 /\ h.hasDot /\ h.b >= 1 /\ 1 + h.b = Len(t)

\* the payload is neither a JSON value nor a numeric literal
Undecodable(payload) ==
    payload.kind = "text" /\ ~JsonNumber(payload.text) /\ ~IsNumericLiteral(payload.text)

\* C14 (parse failure on completion): a completed task whose fetched payload
\* cannot be decoded is reported 'completed' with an outcome of status
\* "error" that carries the failure.
C14_ParseFailureIsError ==
    (rd.pc = "read" /\ rd.nParse = 1 /\ Undecodable(rd.payload))
        => /\ rd.status = "completed"
           /\ rd.result.shape = "object"
           /\ rd.result.status = "error"
           /\ rd.result.error_message # "absent"

\* C15 (payload fetch ordering): in the life of a job driven by one poll
\* loop the payload is fetched only by a poll that found the task COMPLETED,
\* at most once, and a loop that returned the job completed has fetched and
\* parsed it.
C15_FetchOnCompletion ==
    \A l \in PollLoops :
        LET t == loops[l].task
        IN  /\ fetches[t] <= 1
            /\ fetches[t] >= 1 => remote[t] = "COMPLETED"
            /\ (loops[l].pc = "returned" /\ Tracked(t).status = "completed")
                  => (fetches[t] = 1 /\ Tracked(t).result = "scored")

\* the fetched payload was handed to parseTaskResult and JSON.parse threw
FallbackTaken ==
    rd.pc = "read" /\ rd.nParse = 1 /\ rd.payload.kind = "text" /\ ~JsonNumber(rd.payload.text)

\* C16 (ResultParser fallback): for a payload that is not JSON, parseTaskResult
\* returns scoring_logic "A * 2", status "success", data_source
\* "protected_data", no input_A, and as result the number the payload is, or
\* 0 when the payload is not a number.
C16_FallbackOutcome ==
    FallbackTaken
        => /\ rd.result.shape = "object"
           /\ rd.result.scoring_logic = "A * 2"
           /\ rd.result.status = "success"
           /\ rd.result.data_source = "protected_data"
           /\ ~rd.result.input_A.present
           /\ rd.result.result = Field(IF IsNumericLiteral(rd.payload.text)
                                       THEN LiteralHead(rd.payload.text).value
                                       ELSE Num(0, 0))

\* C17 (numeric-literal payload): a fetched payload that is one numeric
\* literal, such as "84.0", yields an object with that number as result,
\* status "success", data_source "protected_data" and no input_A.
C17_NumericLiteralPayload ==
    (rd.pc = "read" /\ rd.nParse = 1 /\ rd.payload.kind = "text" /\ IsNumericLiteral(rd.payload.text))
        => /\ rd.result.shape = "object"
           /\ rd.result.result = Field(LiteralHead(rd.payload.text).value)
           /\ rd.result.status = "success"
           /\ rd.result.data_source = "protected_data"
           /\ ~rd.result.input_A.present

\* input_A is there exactly when the data source is the command line
Provenance(o) == o.input_A.present <=> o.data_source = "command_line_args"

C19_MatchRetry ==
    /\ sub.matchCalls <= 2
    /\ (sub.pc = "failed" /\ sub.error = "MatchFailed") => sub.matchCalls = 2

\* C20 (no dangling commitment): a submission that ends with no app order, no
\* TEE workerpool order or no task id has no deal: matchOrders did not
\* succeed in it.
C20_NoDanglingCommitment ==
    (sub.pc = "failed" /\ sub.error \in {"NoAppOrder", "NoTeeWorkerpool", "NoTaskId"})
        => sub.dealId = 0

\* C21 (job-id resolution): a submission that returns has a task id, and one
\* that fails after its deal was made has asked deal.show for the deal's
\* tasks and ends with the 'Failed to get task ID' error.
C21_JobIdResolution ==
    /\ sub.pc = "done" => sub.taskId # 0
    /\ (sub.pc = "failed" /\ sub.dealId # 0)
          => (sub.showCalls = 1 /\ sub.error = "NoTaskId")

Delivered(s) == [taskId |-> s.taskId, dealId |-> s.dealId, status |-> s.status]

\* what a run in protected-data mode can hand to its caller
ProtectedDeliveries == {[taskId |-> TaskOf(d), dealId |-> d, status |-> "pending"] : d \in DealIds}

\* C23 (degradation is surfaced): what a run that took the dataset fallback
\* returns is not something a run in protected-data mode returns.
C23_DegradationSurfaced ==
    (sub.pc = "done" /\ sub.warned) => Delivered(sub) \notin ProtectedDeliveries

\* the app order has been looked up in this submission
AppResolved ==
    sub.signed /\ sub.pc \in {"poolorder", "dataset2", "match", "taskid", "dealshow", "done", "failed"}

\* C24 (missing provider offer): when the app order book holds no order with
\* remaining volume (or cannot be read), the submission ends with the 'No app
\* orders found' error and matchOrders is not called.
C24_MissingProviderOffer ==
    (AppResolved /\ ~sub.appAvail)
        => (sub.pc = "failed" /\ sub.error = "NoAppOrder" /\ sub.matchCalls = 0)

\* C25 (step ordering): the request is signed only once the app order and the
\* workerpool order are resolved, matchOrders is called only with a signed
\* request, and a submission that ends for lack of an app or workerpool order
\* has signed nothing.
C25_StepOrdering ==
    /\ sub.signed => (sub.apporder.found /\ sub.workerpoolorder.found)
    /\ sub.matchCalls > 0 => sub.signed
    /\ (sub.pc = "failed" /\ sub.error \in {"NoAppOrder", "NoTeeWorkerpool"}) => ~sub.signed

\* the request order has been built from orderParams
RequestBuilt == sub.pc = "sign" \/ sub.signed

\* C26 (request composition): the orderParams a request order is built from
\* carry params.args or dataset, never both and never neither.
C26_RequestComposition ==
    RequestBuilt => (sub.dataset <=> sub.args = NoArgs)

C26_Witness ==
    sub.signed /\ sub.dataset /\ sub.args = NoArgs /\ sub.params.inputValue.defined

\* the request carries no dataset and the caller gave an input value
PlainRun == ~sub.dataset /\ sub.params.inputValue.defined

\* C27 (plain-value round trip): a request without dataset for the input
\* value v carries the decimal string of v as its args, and the result read
\* from the completed task is {scoring_logic "A * 2", result 2 * v, status
\* "success", data_source "command_line_args", input_A v}.
C27_PlainRoundTrip ==
    LET v == sub.params.inputValue.value
    IN  /\ (sub.signed /\ PlainRun) => sub.args = toString(v)
        /\ (PlainRun /\ rd.pc = "read" /\ rd.nParse = 1)
              => rd.result = [NoObject EXCEPT !.shape = "object", !.scoring_logic = "A * 2",
                                              !.result = Field(Num(2 * v.m, v.s)),
                                              !.status = "success",
                                              !.data_source = "command_line_args",
                                              !.input_A = Field(v)]

\* C28 (independent concurrent submissions): whatever the interleaving of the
\* calls, the deal id a call returns is the deal the ledger made of that
\* call's own signed request, its task id is the task of that deal, the task
\* a poller gets back is the one it asked for, and no two calls return the
\* same deal or task.
C28_IndependentSubmissions ==
    \A p \in 1..NPipes :
        LET c == conc.pipes[p]
        IN  /\ c.pc \in {"done", "polled"}
                  => /\ c.dealId \in 1..Len(conc.deals)
                     /\ conc.deals[c.dealId] = [salt |-> p, args |-> c.args]
                     /\ dealid(c.taskId) = c.dealId
                     /\ \A q \in 1..NPipes :
                           (q # p /\ conc.pipes[q].pc \in {"done", "polled"})
                               => (conc.pipes[q].dealId # c.dealId /\ conc.pipes[q].taskId # c.taskId)
            /\ c.pc = "polled" => c.task = [taskId |-> c.taskId, dealId |-> c.dealId]

\* two calls overlapped: the one that started its request second got the
\* first deal, and both were polled
C28_Witness ==
    /\ conc.pipes[1].pc = "polled" /\ conc.pipes[2].pc = "polled"
    /\ conc.pipes[1].dealId = 2 /\ conc.pipes[2].dealId = 1
    /\ conc.pipes[1].args # conc.pipes[2].args

\* what the resolution function of the state answers for an order book
ResolutionOf(book) ==
    CASE lkKind = "app" -> getAppOrder(book)
      [] lkKind = "pool" -> getWorkerpoolOrder(lkDebug, book)
      [] lkKind = "dataset" -> getDatasetOrder(book)

\* C29 (tagged resolution outcomes): when the order-book query of getAppOrder,
\* getWorkerpoolOrder or getDatasetOrder threw and nothing was resolved, the
\* caller gets an outcome other than the one of an empty order book.
C29_TaggedResolutionOutcomes ==
    (lkDone /\ ~lkBook.ok /\ ~lkResult.found) => lkResult # ResolutionOf(EmptyResponse)

\* C30 (commitment query confined to the fallback): a status poll asks
\* deal.show for nothing, so no poll ends with an error that came from
\* deal.show; only the task-id fallback of a submission calls it.
C30_CommitmentQueryConfined ==
    \A p \in 1..NPipes :
        /\ conc.pipes[p].pollShows = 0
        /\ conc.pipes[p].pc = "pollthrew" => conc.pipes[p].pollError # "deal.show"

\* C31 (initial job state): the task a successful triggerTEETask hands back
\* has status 'pending' and the deal id matchOrders returned to that call.
C31_InitialJobState ==
    sub.pc = "done"
        => (sub.status = "pending" /\ sub.matched \in DealIds /\ sub.dealId = sub.matched)

\* a call returned after the fallback, with the second deal id
C31_Witness ==
    sub.pc = "done" /\ sub.status = "pending" /\ sub.dealId = 2 /\ sub.showCalls = 1

\* C32 (input confidentiality in the scoring app): a result.json written by a
\* run that took A from the protected data has no input_A, whatever A is;
\* input_A is in a result.json only when A came from the arguments.
C32_InputConfidentiality ==
    rd.pc # "idle"
        => /\ rd.usedProtectedData => ~rd.doc.input_A.present
           /\ rd.doc.input_A.present
                 => (~rd.usedProtectedData /\ rd.doc.data_source = "command_line_args")

\* a run on protected data 42 wrote the result 84 and no input_A
C32_Witness ==
    /\ rd.pc = "ran" /\ rd.usedProtectedData
    /\ rd.doc.result = Field(Num(84, 0)) /\ ~rd.doc.input_A.present

\* C33 (scoring app outputs): every run writes result.json and then
\* computed.json, once each; a run without a usable input writes a result.json
\* with status "error" and the error message, and computed.json names that
\* file and carries the message.
C33_AppOutputs ==
    rd.pc # "idle"
        => /\ rd.writes = <<"result.json", "computed.json">>
           /\ rd.computedPath
           /\ ~rd.inputOk
                 => /\ rd.doc.status = "error"
                    /\ rd.doc.error_message # "absent"
                    /\ rd.computedError = rd.doc.error_message
           /\ rd.inputOk => (rd.doc.status = "success" /\ rd.computedError = "absent")

\* a run whose argument is not a number wrote both files
C33_Witness ==
    /\ rd.pc = "ran" /\ ~rd.inputOk /\ rd.doc.error_message = "NoValidArgs"
    /\ rd.writes = <<"result.json", "computed.json">>

\* C34 (batch grants): a batch grant that returned asked one grant per element
\* of its list, in the order of the list, and its results are one entry per
\* element in that order: success is true exactly for the grants the core
\* made, a failed one carries its error message; the method does not throw.
C34_BatchGrants ==
    /\ gr.kind \in {"users", "apps"} => ~gr.threw
    /\ (gr.kind \in {"users", "apps"} /\ gr.pc = "returned")
          => /\ Len(gr.results) = Len(gr.list) /\ Len(gr.attempts) = Len(gr.list)
             /\ \A k \in 1..Len(gr.list) :
                   /\ gr.attempts[k].who = gr.list[k]
                   /\ gr.results[k].who = gr.list[k]
                   /\ gr.results[k].success = gr.attempts[k].outcome.ok
                   /\ ~gr.results[k].success => gr.results[k].error # <<>>

\* the first grant of a list of two failed and the second was made
C34_Witness ==
    /\ gr.pc = "returned" /\ Len(gr.list) = 2
    /\ ~gr.results[1].success /\ gr.results[1].error = <<"Failed to grant access", "denied">>
    /\ gr.results[2].success

\* C40 (grant CLI outcome): the command line prints the success message and
\* ends normally only if the grant was made, in the public and in the user
\* form; a failed grant prints the failure message and exits with status 1.
C40_GrantCliOutcome ==
    (gr.kind \in {"public", "user"} /\ gr.pc = "exited" /\ Len(gr.attempts) = 1)
        => IF gr.attempts[1].outcome.ok
           THEN gr.printed = "success" /\ gr.exit = 0
           ELSE gr.printed = "failure" /\ gr.exit = 1

\* the poll loops that have not ended
ActivePolls == {l \in PollLoops : loops[l].pc \notin Finished}

\* C36 (single poller): at most one pollTaskUntilComplete loop started by
\* ScoreDisplay is running at any time.
C36_SinglePoller ==
    Cardinality(ActivePolls) <= 1

\* C37 (update isolation): a step that delivers the answer of a status poll
\* for task X leaves the record of every other task as it is, and leaves the
\* page on the task it shows when that is not X.
C37_UpdateIsolation ==
    [][\A l \in 1..MaxLoops :
          (loops[l].pc = "inflight" /\ loops'[l].pc # "inflight")
              => /\ \A t \in 1..MaxTasks : t # loops[l].task => Tracked(t)' = Tracked(t)
                 /\ currentTask.taskId # loops[l].task
                       => currentTask'.taskId = currentTask.taskId]_vars

\* the page shows task t as pending or running
ShownUnfinished(t) == currentTask.taskId = t /\ currentTask.status \in {"pending", "running"}

\* a poll loop for task t is running or has run
HasPoll(t) == \E l \in PollLoops : loops[l].task = t

\* C35 (auto-polling liveness): while the page shows a task as pending or
\* running, a poll loop for that task is running or has run, or one is
\* started before the page stops showing it so.
C35_AutoPolling ==
    \A t \in 1..MaxTasks : ShownUnfinished(t) ~> (HasPoll(t) \/ ~ShownUnfinished(t))

\* C39 (dataset offer accompanies dataset request): when matchOrders is called
\* with a request that names a dataset, the match request holds a dataset
\* order.
C39_DatasetOfferAccompanies ==
    (sub.matchCalls > 0 /\ sub.dataset) => sub.datasetorder.found

\* C38 (connection flag): between initialize() calls, isConnected() is true
\* only if the most recent call ended well on chain 134; after a call that
\* failed, isConnected() is false and triggerTEETask rejects.
C38_ConnectionFlag ==
    (cx.pc = "idle" /\ cx.nInits > 0)
        => /\ isConnected(cx) => (cx.last = "ok" /\ cx.chainId = BellecourChainId)
           /\ cx.last # "ok" => (~isConnected(cx) /\ RejectsTrigger(cx))

=============================================================================
